---- MODULE Spec2Model ----
(***************************************************************************)
(* Kalman filter and Rauch-Tung-Striebel smoother of src/src/lib.rs.       *)
(*                                                                         *)
(* The library is generic over a scalar type R: RealField.  The model      *)
(* instantiates R with the exact rationals extended by the three special   *)
(* values of a floating-point type (NaN, +infinity, -infinity), so that    *)
(* every matrix formula is evaluated exactly and the missing-observation   *)
(* test is_nan is evaluated on genuine NaN and infinite values.            *)
(* Numerators and denominators are unbounded naturals kept as sequences of *)
(* limbs, because the products that the Joseph form builds do not fit a    *)
(* machine integer of the model checker.                                   *)
(***************************************************************************)
EXTENDS Integers, Sequences, FiniteSets, TLC

----------------------------------------------------------------------------
(* Evaluation order.  The source computes every intermediate value once    *)
(* and names it with let.  The model binds such a value with               *)
(*     Only({ body : name \in {value} })                                   *)
(* which reads "let name = value in body" and, unlike LET, makes the model *)
(* checker compute the value once, however often the body uses the name.   *)

Only(S) == CHOOSE x \in S : TRUE

----------------------------------------------------------------------------
(* Unbounded naturals: little-endian limbs in base Base, no leading zero   *)
(* limb, zero is the empty sequence.                                       *)

Base == 10000

\* Largest factor whose square still fits the checker's integers.
NativeMulMax == 46340

IsSmall(a) == Len(a) <= 2

ToNat(a) ==
    IF Len(a) = 0 THEN 0
    ELSE IF Len(a) = 1 THEN a[1]
    ELSE a[1] + a[2] * Base

FromNat(v_) ==
    Only({ IF v = 0 THEN << >>
           ELSE IF v < Base THEN <<v>>
           ELSE IF v < Base * Base THEN <<v % Base, v \div Base>>
           ELSE <<v % Base, (v \div Base) % Base, v \div (Base * Base)>>
           : v \in {v_} })

\* a without its leading zero limbs, of which the top n limbs are in doubt.
RECURSIVE StripTo(_, _)
StripTo(a, n) ==
    IF n = 0 THEN << >>
    ELSE IF a[n] = 0 THEN StripTo(a, n - 1)
    ELSE SubSeq(a, 1, n)

Strip(a_) == Only({ StripTo(a, Len(a)) : a \in {a_} })

\* Limb i of a, zero beyond its length.
Limb(a, i) == IF i > Len(a) THEN 0 ELSE a[i]

\* Limbs i.. of a + b + c, for a carry c into limb i.
RECURSIVE AddCarry(_, _, _, _)
AddCarry(a, b, i, c) ==
    IF i > Len(a) /\ i > Len(b) THEN (IF c = 0 THEN << >> ELSE <<c>>)
    ELSE Only({ <<x % Base>> \o AddCarry(a, b, i + 1, x \div Base)
                : x \in {Limb(a, i) + Limb(b, i) + c} })

BAdd(a_, b_) ==
    Only({ IF IsSmall(a) /\ IsSmall(b) THEN FromNat(ToNat(a) + ToNat(b))
           ELSE AddCarry(a, b, 1, 0)
           : a \in {a_}, b \in {b_} })

\* Limbs i.. of a - b - c for a >= b + c, with a borrow c out of limb i.
RECURSIVE SubBorrow(_, _, _, _)
SubBorrow(a, b, i, c) ==
    IF i > Len(a) THEN << >>
    ELSE Only({ IF x < 0
                THEN <<x + Base>> \o SubBorrow(a, b, i + 1, 1)
                ELSE <<x>> \o SubBorrow(a, b, i + 1, 0)
                : x \in {a[i] - Limb(b, i) - c} })

BSub(a_, b_) ==
    Only({ IF IsSmall(a) /\ IsSmall(b) THEN FromNat(ToNat(a) - ToNat(b))
           ELSE Strip(SubBorrow(a, b, 1, 0))
           : a \in {a_}, b \in {b_} })

RECURSIVE CmpFrom(_, _, _)
CmpFrom(a, b, i) ==
    IF i = 0 THEN 0
    ELSE IF a[i] < b[i] THEN -1
    ELSE IF a[i] > b[i] THEN 1
    ELSE CmpFrom(a, b, i - 1)

\* -1, 0 or 1 as a < b, a = b or a > b.
BCmp(a_, b_) ==
    Only({ IF Len(a) < Len(b) THEN -1
           ELSE IF Len(a) > Len(b) THEN 1
           ELSE CmpFrom(a, b, Len(a))
           : a \in {a_}, b \in {b_} })

\* Limbs i.. of a * m + c for one limb m, with a carry c into limb i.
RECURSIVE MulLimbCarry(_, _, _, _)
MulLimbCarry(a, m, i, c) ==
    IF i > Len(a) THEN (IF c = 0 THEN << >> ELSE <<c>>)
    ELSE Only({ <<x % Base>> \o MulLimbCarry(a, m, i + 1, x \div Base)
                : x \in {a[i] * m + c} })

BMulLimb(a, m) == IF m = 0 THEN << >> ELSE MulLimbCarry(a, m, 1, 0)

ShiftLimb(a_) == Only({ IF a = << >> THEN a ELSE <<0>> \o a : a \in {a_} })

\* a times the limbs j.. of b.
RECURSIVE MulLong(_, _, _)
MulLong(a, b, j) ==
    IF j > Len(b) THEN << >>
    ELSE Only({ AddCarry(low, high, 1, 0)
                : low \in {BMulLimb(a, b[j])}, high \in {ShiftLimb(MulLong(a, b, j + 1))} })

BMul(a_, b_) ==
    Only({ IF a = << >> \/ b = << >> THEN << >>
           ELSE IF a = <<1>> THEN b
           ELSE IF b = <<1>> THEN a
           ELSE IF IsSmall(a) /\ IsSmall(b)
                   /\ ToNat(a) <= NativeMulMax /\ ToNat(b) <= NativeMulMax
           THEN FromNat(ToNat(a) * ToNat(b))
           ELSE MulLong(a, b, 1)
           : a \in {a_}, b \in {b_} })

\* The largest q in lo..hi with q * b <= r, given lo * b <= r.
RECURSIVE QSearch(_, _, _, _)
QSearch(r, b, lo, hi) ==
    IF lo = hi THEN lo
    ELSE Only({ IF BCmp(BMulLimb(b, mid), r) <= 0
                THEN QSearch(r, b, mid, hi)
                ELSE QSearch(r, b, lo, mid - 1)
                : mid \in {(lo + hi + 1) \div 2} })

\* One quotient limb: floor(r / b) for b > 0 and r < b * Base.
QDigit(r, b) ==
    IF BCmp(r, b) < 0 THEN 0
    ELSE Only({ QSearch(r, b, rt \div (b[Len(b)] + 1),
                        IF rt \div b[Len(b)] > Base - 1 THEN Base - 1
                        ELSE rt \div b[Len(b)])
                : rt \in {Limb(r, Len(b) + 1) * Base + r[Len(b)]} })

\* Long division of the limbs a[1..i] brought down onto the running
\* remainder r; q collects the quotient limbs found so far.
RECURSIVE DivLong(_, _, _, _, _)
DivLong(a, b, i, q, r) ==
    IF i = 0 THEN [q |-> Strip(q), r |-> r]
    ELSE Only({ Only({ Only({ DivLong(a, b, i - 1, <<qd>> \o q, r2)
                              : r2 \in {IF qd = 0 THEN r1
                                        ELSE Strip(SubBorrow(r1, BMulLimb(b, qd), 1, 0))} })
                       : qd \in {QDigit(r1, b)} })
                : r1 \in {Strip(<<a[i]>> \o r)} })

BDivMod(a_, b_) ==
    Only({ IF IsSmall(a) /\ IsSmall(b)
           THEN [q |-> FromNat(ToNat(a) \div ToNat(b)), r |-> FromNat(ToNat(a) % ToNat(b))]
           ELSE IF BCmp(a, b) < 0 THEN [q |-> << >>, r |-> a]
           ELSE DivLong(a, b, Len(a), << >>, << >>)
           : a \in {a_}, b \in {b_} })

BDiv(a, b) == IF b = <<1>> THEN a ELSE BDivMod(a, b).q

RECURSIVE NatGcd(_, _)
NatGcd(x, y) == IF y = 0 THEN x ELSE NatGcd(y, x % y)

RECURSIVE BGcd(_, _)
BGcd(a_, b_) ==
    Only({ IF b = << >> THEN a
           ELSE IF a = <<1>> \/ b = <<1>> THEN <<1>>
           ELSE IF IsSmall(a) /\ IsSmall(b) THEN FromNat(NatGcd(ToNat(a), ToNat(b)))
           ELSE BGcd(b, BDivMod(a, b).r)
           : a \in {a_}, b \in {b_} })

----------------------------------------------------------------------------
(* The scalar type R.  A finite value is a reduced fraction s * n / d with *)
(* sign s in {-1, 0, 1}; k tells a finite value from NaN and the two       *)
(* infinities.  The operations follow IEEE-754 on the special values and   *)
(* are exact on the finite ones.                                           *)

Rat(s, n, d) == [k |-> "num", s |-> s, n |-> n, d |-> d]

Zero == Rat(0, << >>, <<1>>)

One == Rat(1, <<1>>, <<1>>)

NaN == [k |-> "nan", s |-> 0, n |-> << >>, d |-> <<1>>]

Inf(s) == [k |-> "inf", s |-> s, n |-> << >>, d |-> <<1>>]

\* The fraction p / q of two integers of the checker, q > 0, reduced.
Frac(p, q) ==
    IF p = 0 THEN Zero
    ELSE Only({ Rat(IF p < 0 THEN -1 ELSE 1,
                    FromNat((IF p < 0 THEN -p ELSE p) \div g), FromNat(q \div g))
                : g \in {NatGcd(IF p < 0 THEN -p ELSE p, q)} })

\* The product of two finite values, each reduced: the cross factors g1
\* and g2 are cancelled first, so the product is reduced too.
QMul(x, y) ==
    IF x.s = 0 \/ y.s = 0 THEN Zero
    ELSE IF x = One THEN y
    ELSE IF y = One THEN x
    ELSE Only({ Rat(x.s * y.s,
                    BMul(BDiv(x.n, g1), BDiv(y.n, g2)),
                    BMul(BDiv(x.d, g2), BDiv(y.d, g1)))
                : g1 \in {BGcd(x.n, y.d)}, g2 \in {BGcd(y.n, x.d)} })

\* s * num / den for num > 0, reduced, given that every common factor of
\* num and den divides g.
Reduced(s, num, den, g) ==
    Only({ Rat(s, BDiv(num, g2), BDiv(den, g2)) : g2 \in {BGcd(num, g)} })

\* x.s * a / den + y.s * b / den for a, b > 0.
SignedSum(x, y, a, b, den, g) ==
    IF x.s = y.s THEN Reduced(x.s, BAdd(a, b), den, g)
    ELSE Only({ IF c = 0 THEN Zero
                ELSE IF c > 0 THEN Reduced(x.s, BSub(a, b), den, g)
                ELSE Reduced(y.s, BSub(b, a), den, g)
                : c \in {BCmp(a, b)} })

\* The sum of two finite values over the least common denominator.
QAdd(x, y) ==
    IF x.s = 0 THEN y
    ELSE IF y.s = 0 THEN x
    ELSE Only({ Only({ Only({ SignedSum(x, y, a, b, den, g)
                              : a \in {BMul(x.n, yd)},
                                b \in {BMul(y.n, xd)},
                                den \in {BMul(x.d, yd)} })
                       : xd \in {BDiv(x.d, g)}, yd \in {BDiv(y.d, g)} })
                : g \in {BGcd(x.d, y.d)} })

Neg(x) == [x EXCEPT !.s = -x.s]

Add(x_, y_) ==
    Only({ IF x.k = "nan" \/ y.k = "nan" THEN NaN
           ELSE IF x.k = "inf" THEN (IF y.k = "inf" /\ y.s # x.s THEN NaN ELSE x)
           ELSE IF y.k = "inf" THEN y
           ELSE QAdd(x, y)
           : x \in {x_}, y \in {y_} })

Sub(x, y) == Add(x, Neg(y))

Mul(x_, y_) ==
    Only({ IF x.k = "nan" \/ y.k = "nan" THEN NaN
           ELSE IF x.k = "inf" \/ y.k = "inf"
           THEN (IF x.s = 0 \/ y.s = 0 THEN NaN ELSE Inf(x.s * y.s))
           ELSE QMul(x, y)
           : x \in {x_}, y \in {y_} })

Div(x_, y_) ==
    Only({ IF x.k = "nan" \/ y.k = "nan" THEN NaN
           ELSE IF x.k = "inf"
           THEN (IF y.k = "inf" THEN NaN ELSE Inf(IF y.s < 0 THEN -x.s ELSE x.s))
           ELSE IF y.k = "inf" THEN Zero
           ELSE IF y.s = 0 THEN (IF x.s = 0 THEN NaN ELSE Inf(x.s))
           ELSE QMul(x, Rat(y.s, y.d, y.n))
           : x \in {x_}, y \in {y_} })

\* The sign of x - y for finite x and y.
QCmp(x, y) == Only({ d.s : d \in {QAdd(x, Neg(y))} })

\* PartialOrd::partial_cmp: no ordering when either side is NaN.
partial_cmp(x_, y_) ==
    Only({ IF x.k = "nan" \/ y.k = "nan" THEN "None"
           ELSE IF x.k = "inf" /\ y.k = "inf"
           THEN (IF x.s = y.s THEN "Equal" ELSE IF x.s < y.s THEN "Less" ELSE "Greater")
           ELSE IF x.k = "inf" THEN (IF x.s < 0 THEN "Less" ELSE "Greater")
           ELSE IF y.k = "inf" THEN (IF y.s < 0 THEN "Greater" ELSE "Less")
           ELSE Only({ IF c < 0 THEN "Less" ELSE IF c = 0 THEN "Equal" ELSE "Greater"
                       : c \in {QCmp(x, y)} })
           : x \in {x_}, y \in {y_} })

----------------------------------------------------------------------------
(* DVector<R> and DMatrix<R>: a vector is the sequence of its components,  *)
(* a matrix the sequence of its rows.                                      *)

\* The sequence with the elements of the function s on 1..n, each computed
\* once.
Strict(s) == s \o << >>

nrows(m) == Len(m)

ncols(m) == IF Len(m) = 0 THEN 0 ELSE Len(m[1])

RECURSIVE SumFrom(_, _, _)
SumFrom(t, i, acc) == IF i > Len(t) THEN acc ELSE SumFrom(t, i + 1, Add(acc, t[i]))

\* The sum of the terms t, from the left.
SumSeq(t_) == Only({ IF Len(t) = 0 THEN Zero ELSE SumFrom(t, 2, t[1]) : t \in {t_} })

transpose(m_) ==
    Only({ Strict([j \in 1..ncols(m) |-> Strict([i \in 1..nrows(m) |-> m[i][j]])])
           : m \in {m_} })

MatMul(a_, b_) ==
    Only({ Strict([i \in 1..nrows(a) |->
               Strict([j \in 1..ncols(b) |->
                   SumSeq(Strict([k \in 1..ncols(a) |-> Mul(a[i][k], b[k][j])]))])])
           : a \in {a_}, b \in {b_} })

MatVec(a_, v_) ==
    Only({ Strict([i \in 1..nrows(a) |->
               SumSeq(Strict([k \in 1..ncols(a) |-> Mul(a[i][k], v[k])]))])
           : a \in {a_}, v \in {v_} })

MatAdd(a_, b_) ==
    Only({ Strict([i \in 1..nrows(a) |->
               Strict([j \in 1..ncols(a) |-> Add(a[i][j], b[i][j])])])
           : a \in {a_}, b \in {b_} })

MatSub(a_, b_) ==
    Only({ Strict([i \in 1..nrows(a) |->
               Strict([j \in 1..ncols(a) |-> Sub(a[i][j], b[i][j])])])
           : a \in {a_}, b \in {b_} })

MatScale(a_, c_) ==
    Only({ Strict([i \in 1..nrows(a) |-> Strict([j \in 1..ncols(a) |-> Mul(a[i][j], c)])])
           : a \in {a_}, c \in {c_} })

VecAdd(u_, v_) ==
    Only({ Strict([i \in 1..Len(u) |-> Add(u[i], v[i])]) : u \in {u_}, v \in {v_} })

VecSub(u_, v_) ==
    Only({ Strict([i \in 1..Len(u) |-> Sub(u[i], v[i])]) : u \in {u_}, v \in {v_} })

identity(r, c) ==
    Strict([i \in 1..r |-> Strict([j \in 1..c |-> IF i = j THEN One ELSE Zero])])

zeros(n) == Strict([i \in 1..n |-> Zero])

\* Matrix::symmetric_part: (m + transpose(m)) / 2.
symmetric_part(m_) ==
    Only({ MatScale(MatAdd(transpose(m), m), Frac(1, 2)) : m \in {m_} })

----------------------------------------------------------------------------
(* nalgebra's Cholesky::new and Cholesky::inverse, as lines 182 and 191    *)
(* and lines 443 and 449 use them.  The factorization reads the lower      *)
(* triangle only, works column by column and gives up at the first pivot   *)
(* that is zero or has no square root.  The factor L has the irrational    *)
(* entries c[i][j] / sqrt(c[j][j]); the model keeps the rational c, from   *)
(* which the pivots and the inverse of L * transpose(L) follow exactly.    *)

is_zero(x) == x = Zero

\* A square root that takes the magnitude: Some unless x is NaN.
try_sqrt_of_magnitude(x) == partial_cmp(x, Zero) # "None"

\* ComplexField::try_sqrt of a real: Some exactly when x >= 0.
try_sqrt_is_some(x) == partial_cmp(x, Zero) \in {"Greater", "Equal"}

\* Column j after the columns before it were eliminated from it.
CholeskyColumn(m, j) ==
    Strict([i \in 1..nrows(m) |->
        Strict([jj \in 1..ncols(m) |->
            IF jj = j /\ i >= j
            THEN Sub(m[i][j],
                     SumSeq(Strict([k \in 1..(j - 1) |->
                                Div(Mul(m[i][k], m[j][k]), m[k][k])])))
            ELSE m[i][jj]])])

RECURSIVE CholeskyFrom(_, _)
CholeskyFrom(m_, j_) ==
    Only({ IF j > nrows(m) THEN [some |-> TRUE, chol |-> m]
           ELSE Only({ IF ~is_zero(m1[j][j]) /\ try_sqrt_is_some(m1[j][j])
                       THEN CholeskyFrom(m1, j + 1)
                       ELSE [some |-> FALSE, chol |-> m1]
                       : m1 \in {CholeskyColumn(m, j)} })
           : m \in {m_}, j \in {j_} })

Cholesky_new(matrix) == CholeskyFrom(matrix, 1)

\* Row i of the inverse of the lower triangle c, by forward substitution,
\* given the rows z before it.
LowerInverseRow(c, i, z) ==
    Strict([j \in 1..nrows(c) |->
        IF j > i THEN Zero
        ELSE IF j = i THEN Div(One, c[i][i])
        ELSE Neg(Div(SumSeq(Strict([k \in 1..(i - j) |->
                                Mul(c[i][j + k - 1], z[j + k - 1][j])])),
                     c[i][i]))])

RECURSIVE LowerInverseRows(_, _, _)
LowerInverseRows(c_, i_, z_) ==
    Only({ IF i > nrows(c) THEN z
           ELSE LowerInverseRows(c, i + 1, Append(z, LowerInverseRow(c, i, z)))
           : c \in {c_}, i \in {i_}, z \in {z_} })

\* Cholesky::inverse: the inverse of L * transpose(L).
Cholesky_inverse(c_) ==
    Only({ Strict([i \in 1..nrows(c) |-> Strict([j \in 1..nrows(c) |->
               SumSeq(Strict([k \in 1..nrows(c) |-> Mul(Mul(z[k][i], c[k][k]), z[k][j])]))])])
           : c \in {c_}, z \in {LowerInverseRows(c_, 1, << >>)} })

----------------------------------------------------------------------------
(* StateAndCovariance, the two model traits and the results of the calls.  *)

StateAndCovariance_new(state, covariance) ==
    [state |-> state, covariance |-> covariance]

Ok(v) == [tag |-> "Ok", val |-> v]

Err(e) == [tag |-> "Err", val |-> e]

Panic(msg) == [tag |-> "Panic", val |-> msg]

CovarianceNotPositiveSemiDefinite == "CovarianceNotPositiveSemiDefinite"

CovarianceUpdateMethod == {"OptimalKalman", "OptimalKalmanForcedSymmetric", "JosephForm"}

Abs(x) == IF x.s < 0 THEN Neg(x) ELSE x

LessEq(x, y) == partial_cmp(x, y) \in {"Less", "Equal"}

\* f64::EPSILON, the default absolute tolerance of assert_relative_eq: 2^-52.
default_epsilon == Rat(1, <<1>>, <<496, 2737, 5996, 4503>>)

max_relative == Frac(1, 100000)

relative_eq(a_, b_) ==
    Only({ IF a = b /\ a.k # "nan" THEN TRUE
           ELSE IF a.k # "num" \/ b.k # "num" THEN FALSE
           ELSE Only({ LessEq(abs_diff, default_epsilon)
                       \/ LessEq(abs_diff, Mul(largest, max_relative))
                       : abs_diff \in {Abs(Sub(a, b))},
                         largest \in {IF partial_cmp(Abs(b), Abs(a)) = "Greater"
                                      THEN Abs(b) ELSE Abs(a)} })
           : a \in {a_}, b \in {b_} })

\* debug_assert_symmetric!: TRUE when the assertion passes.
debug_assert_symmetric(mat_) ==
    \A mat \in {mat_} :
        \A i \in 1..nrows(mat) : \A j \in 1..ncols(mat) : relative_eq(mat[i][j], mat[j][i])

\* TransitionModelLinearNoControl::predict.
predict(self_, previous_estimate_) ==
    Only({ Only({ StateAndCovariance_new(state, covariance)
                  : state \in {MatVec(self.F, previous_estimate.state)},
                    covariance \in {MatAdd(MatMul(MatMul(self.F, previous_estimate.covariance),
                                                  self.FT),
                                           self.Q)} })
           : self \in {self_}, previous_estimate \in {previous_estimate_} })

\* ObservationModel::predict_observation, the linear default.
predict_observation(self, state) == MatVec(self.H, state)

\* An innovation covariance without the observation noise.
innovation_covariance_no_r(self, p) == MatMul(MatMul(self.H, p), self.HT)

\* The innovation covariance s of update.
innovation_covariance(self, p) ==
    MatAdd(MatMul(MatMul(self.H, p), self.HT), self.R)

\* The posterior mean of update, from the gain.
posterior_state(self, prior, observation, k_gain) ==
    Only({ Only({ VecAdd(prior.state, MatVec(k_gain, innovation))
                  : innovation \in {VecSub(observation, predicted)} })
           : predicted \in {predict_observation(self, prior.state)} })

\* The posterior covariance of update, from the gain: the match on
\* covariance_method.
posterior_covariance(self, prior, covariance_method, k_gain) ==
    Only({ Only({ IF covariance_method = "JosephForm"
                  THEN Only({ MatAdd(left, right)
                              : left \in {MatMul(MatMul(one_minus_kh, prior.covariance),
                                                 transpose(one_minus_kh))},
                                right \in {MatMul(MatMul(k_gain, self.R),
                                                  transpose(k_gain))} })
                  ELSE IF covariance_method = "OptimalKalman"
                  THEN MatMul(one_minus_kh, prior.covariance)
                  ELSE Only({ symmetric_part(covariance1)
                              : covariance1 \in {MatMul(one_minus_kh, prior.covariance)} })
                  : one_minus_kh \in {MatSub(identity(nrows(kh), ncols(kh)), kh)} })
           : kh \in {MatMul(k_gain, self.H)} })

\* The end of update: the symmetry assertion on the posterior covariance.
update_result(state, covariance, debug) ==
    IF debug /\ ~debug_assert_symmetric(covariance)
    THEN Panic("assertion failed: symmetric")
    ELSE Ok(StateAndCovariance_new(state, covariance))

\* update from the factorization of s on.
update_from_cholesky(self, prior, observation, covariance_method, debug, s_chol) ==
    IF ~s_chol.some THEN Err(CovarianceNotPositiveSemiDefinite)
    ELSE Only({ Only({ update_result(posterior_state(self, prior, observation, k_gain),
                                     posterior_covariance(self, prior, covariance_method,
                                                          k_gain),
                                     debug)
                       : k_gain \in {MatMul(MatMul(prior.covariance, self.HT), s_inv)} })
                : s_inv \in {Cholesky_inverse(s_chol.chol)} })

\* An update whose mean the covariance update method leaks into: the
\* symmetric variant starts from a prior mean of zero.
update_method_dependent_mean(self_, prior_, observation_, covariance_method, debug) ==
    Only({ update_from_cholesky(self,
               IF covariance_method = "OptimalKalmanForcedSymmetric"
               THEN [prior EXCEPT !.state = zeros(Len(prior.state))] ELSE prior,
               observation, covariance_method, debug,
               Cholesky_new(innovation_covariance(self, prior.covariance)))
           : self \in {self_}, prior \in {prior_}, observation \in {observation_} })

\* ObservationModel::update.  debug is cfg(debug_assertions).
update(self_, prior_, observation_, covariance_method, debug) ==
    Only({ IF debug /\ ~debug_assert_symmetric(prior.covariance)
           THEN Panic("assertion failed: symmetric")
           ELSE Only({ update_from_cholesky(self, prior, observation, covariance_method,
                                            debug, s_chol)
                       : s_chol \in {Cholesky_new(innovation_covariance(self,
                                                                        prior.covariance))} })
           : self \in {self_}, prior \in {prior_}, observation \in {observation_} })

\* A test for missing values that also takes the infinities for missing.
is_not_finite(x) == partial_cmp(Sub(x, x), Zero) = "None"

is_nan(x) == partial_cmp(x, Zero) = "None"

\* KalmanFilterNoControl::step_with_options.
step_with_options(self_, previous_estimate, observation_, covariance_update_method, debug) ==
    Only({ IF \E i \in 1..Len(observation) : is_nan(observation[i])
           THEN Ok(prior)
           ELSE update(self.observation_matrix, prior, observation,
                       covariance_update_method, debug)
           : self \in {self_}, observation \in {observation_},
             prior \in {predict(self_.transition_model, previous_estimate)} })

\* KalmanFilterNoControl::step.
step(self, previous_estimate, observation, debug) ==
    step_with_options(self, previous_estimate, observation, "JosephForm", debug)

\* The smoothed belief of smooth_step, from the factorization of the
\* predicted covariance on.
smooth_from_cholesky(self, smooth_future, filt, prior, v_chol, residuals) ==
    IF ~v_chol.some THEN Err(CovarianceNotPositiveSemiDefinite)
    ELSE Only({ Only({ Only({ Ok(StateAndCovariance_new(state, covariance))
                              : state \in {VecAdd(filt.state, MatVec(j, residuals))},
                                covariance \in
                                    {MatAdd(filt.covariance,
                                            MatMul(j, MatMul(MatSub(smooth_future.covariance,
                                                                    prior.covariance),
                                                             transpose(j))))} })
                       : j \in {MatMul(filt.covariance,
                                       MatMul(self.transition_model.FT,
                                              inv_prior_covariance))} })
                : inv_prior_covariance \in {Cholesky_inverse(v_chol.chol)} })

\* A smoother step whose mean correction has the wrong sign.
smooth_step_wrong_sign(self_, smooth_future_, filt_) ==
    Only({ Only({ smooth_from_cholesky(self, smooth_future, filt, prior,
                                       Cholesky_new(prior.covariance),
                                       VecSub(prior.state, smooth_future.state))
                  : prior \in {predict(self.transition_model, filt)} })
           : self \in {self_}, smooth_future \in {smooth_future_}, filt \in {filt_} })

\* KalmanFilterNoControl::smooth_step.
smooth_step(self_, smooth_future_, filt_) ==
    Only({ Only({ Only({ smooth_from_cholesky(self, smooth_future, filt, prior, v_chol,
                                              residuals)
                         : v_chol \in {Cholesky_new(prior.covariance)},
                           residuals \in {VecSub(smooth_future.state, prior.state)} })
                  : prior \in {predict(self.transition_model, filt)} })
           : self \in {self_}, smooth_future \in {smooth_future_}, filt \in {filt_} })

\* A reversal that leaves the order as it is.
reverse_nothing(v) == v

\* Vec::reverse.
RECURSIVE reverse(_)
reverse(v) == IF Len(v) = 0 THEN << >> ELSE Append(reverse(Tail(v)), Head(v))

----------------------------------------------------------------------------
(* The inputs: the systems a filter is built for, the beliefs it starts    *)
(* from and the observations it is given.                                  *)

\* The longest observation series.
MaxObs == 3

\* How many more slots than observations a caller's buffer may have.
MaxSpare == 1

Row1(a) == <<a>>

Mat1(a) == <<Row1(a)>>

Mat2(a, b, c, d) == <<(<<a, b>>), (<<c, d>>)>>

Whole(i) == Frac(i, 1)

Belief1(x, p) == StateAndCovariance_new(<<x>>, Mat1(p))

\* A 1-D constant position observed directly: the model of spec section 8.
ConstantPosition ==
    [transition_model   |-> [F |-> Mat1(One), FT |-> Mat1(One), Q |-> Mat1(Frac(1, 100))],
     observation_matrix |-> [H |-> Mat1(One), HT |-> Mat1(One), R |-> Mat1(Frac(1, 10))],
     initial |-> {Belief1(Zero, One), Belief1(Zero, Zero)},
     series  |-> {<<One>>, <<NaN>>},
     single  |-> {<<Inf(1)>>, <<Inf(-1)>>}]

\* The same with a sensor and a process that have no noise at all.
NoiseFree ==
    [transition_model   |-> [F |-> Mat1(One), FT |-> Mat1(One), Q |-> Mat1(Zero)],
     observation_matrix |-> [H |-> Mat1(One), HT |-> Mat1(One), R |-> Mat1(Zero)],
     initial |-> {Belief1(Zero, One), Belief1(Zero, Zero)},
     series  |-> {<<One>>, <<NaN>>},
     single  |-> { }]

\* The same with an observation noise that is no covariance: R < 0.
NegativeNoise ==
    [transition_model   |-> [F |-> Mat1(One), FT |-> Mat1(One), Q |-> Mat1(Frac(1, 100))],
     observation_matrix |-> [H |-> Mat1(One), HT |-> Mat1(One), R |-> Mat1(Frac(-1, 2))],
     initial |-> {Belief1(Zero, One), Belief1(Zero, Zero)},
     series  |-> {<<One>>, <<NaN>>},
     single  |-> { }]

\* Position and velocity, the position observed.
ConstantVelocity ==
    [transition_model   |-> [F  |-> Mat2(One, One, Zero, One),
                             FT |-> Mat2(One, Zero, One, One),
                             Q  |-> Mat2(Zero, Zero, Zero, One)],
     observation_matrix |-> [H |-> <<(<<One, Zero>>)>>, HT |-> <<Row1(One), Row1(Zero)>>,
                             R |-> Mat1(One)],
     initial |-> {StateAndCovariance_new(<<Zero, One>>, Mat2(One, Zero, Zero, One)),
                  StateAndCovariance_new(<<Zero, One>>, Mat2(Zero, Zero, Zero, Zero))},
     series  |-> {<<Whole(2)>>, <<NaN>>},
     single  |-> { }]

\* One position seen by two sensors whose noises are correlated by c.
TwoSensors(c) ==
    [transition_model   |-> [F |-> Mat1(One), FT |-> Mat1(One), Q |-> Mat1(One)],
     observation_matrix |-> [H |-> <<Row1(One), Row1(One)>>, HT |-> <<(<<One, One>>)>>,
                             R |-> Mat2(One, c, c, One)],
     initial |-> {Belief1(Zero, One)},
     series  |-> {<<One, Whole(2)>>, <<One, NaN>>},
     single  |-> {<<NaN, NaN>>, <<Inf(1), One>>}]

Systems ==
    {ConstantPosition, NoiseFree, NegativeNoise, ConstantVelocity,
     TwoSensors(Zero), TwoSensors(Whole(2))}

SeqsUpTo(S, n) == UNION {[1..k -> S] : k \in 0..n}

ObservationSeries(sys) == SeqsUpTo(sys.series, MaxObs) \cup {<<o>> : o \in sys.single}

\* A slot of a caller's buffer before filter_inplace writes it.
\* Every slot holds a value of its own, so that a slot written or moved shows.
stale(n, k) == StateAndCovariance_new(Strict([i \in 1..n |-> Whole(-k)]), identity(n, n))

\* The placeholder filter fills its buffer with.
empty(n) == StateAndCovariance_new(zeros(n), identity(n, n))

unset == StateAndCovariance_new(<< >>, << >>)

----------------------------------------------------------------------------
(* The state: the filter struct, the build, the call in progress with its  *)
(* arguments, locals and position, and what the call returned.             *)

VARIABLES
    transition_model,          \* KalmanFilterNoControl::transition_model
    observation_matrix,        \* KalmanFilterNoControl::observation_matrix
    debug_assertions,          \* cfg(debug_assertions) of the build
    initial_estimate,          \* argument: the initial (or prior) belief
    observations,              \* argument: the observations
    covariance_update_method,  \* argument of update and step_with_options
    call,                      \* the entry point the caller called
    pc,                        \* where the call is
    previous_estimate,         \* filter_inplace: previous_estimate
    state_estimates,           \* filter_inplace: the output buffer
    zip_pos,                   \* filter_inplace: pairs the zip has yielded
    forward_results,           \* smooth_from_filtered: forward_results
    smoothed_backwards,        \* smooth_from_filtered: smoothed_backwards
    smooth_future,             \* smooth_from_filtered: smooth_future
    ret                        \* the value the call returned

vars ==
    <<transition_model, observation_matrix, debug_assertions, initial_estimate,
      observations, covariance_update_method, call, pc, previous_estimate,
      state_estimates, zip_pos, forward_results, smoothed_backwards, smooth_future,
      ret>>

model_vars == <<transition_model, observation_matrix, debug_assertions,
                initial_estimate, observations>>

filter_locals == <<previous_estimate, state_estimates, zip_pos>>

smooth_locals == <<forward_results, smoothed_backwards, smooth_future>>

\* KalmanFilterNoControl::new: the struct of the two borrowed models.
Self == [transition_model |-> transition_model, observation_matrix |-> observation_matrix]

state_dim == nrows(initial_estimate.state)

Init ==
    /\ \E sys \in Systems :
          /\ transition_model = sys.transition_model
          /\ observation_matrix = sys.observation_matrix
          /\ initial_estimate \in sys.initial
          /\ observations \in ObservationSeries(sys)
    /\ debug_assertions \in BOOLEAN
    /\ covariance_update_method = "JosephForm"
    /\ call = "none"
    /\ pc = "idle"
    /\ previous_estimate = unset
    /\ state_estimates = << >>
    /\ zip_pos = 0
    /\ forward_results = << >>
    /\ smoothed_backwards = << >>
    /\ smooth_future = unset
    /\ ret = [tag |-> "None", val |-> << >>]

\* A caller calls update on a prior and one observation.
CallUpdate ==
    /\ pc = "idle"
    /\ Len(observations) = 1
    /\ \E m \in CovarianceUpdateMethod :
          /\ covariance_update_method' = m
          /\ ret' = update(observation_matrix, initial_estimate, observations[1], m,
                           debug_assertions)
    /\ call' = "update"
    /\ pc' = "done"
    /\ UNCHANGED <<model_vars, filter_locals, smooth_locals>>

\* A caller calls step_with_options.
CallStepWithOptions ==
    /\ pc = "idle"
    /\ Len(observations) = 1
    /\ \E m \in CovarianceUpdateMethod :
          /\ covariance_update_method' = m
          /\ ret' = step_with_options(Self, initial_estimate, observations[1], m,
                                      debug_assertions)
    /\ call' = "step_with_options"
    /\ pc' = "done"
    /\ UNCHANGED <<model_vars, filter_locals, smooth_locals>>

\* A caller calls step.
CallStep ==
    /\ pc = "idle"
    /\ Len(observations) = 1
    /\ ret' = step(Self, initial_estimate, observations[1], debug_assertions)
    /\ call' = "step"
    /\ pc' = "done"
    /\ UNCHANGED <<model_vars, covariance_update_method, filter_locals, smooth_locals>>

\* An entry that does not check the capacity of the buffer.
EnterFilterInplaceUnchecked(buffer) ==
    /\ previous_estimate' = initial_estimate
    /\ state_estimates' = buffer
    /\ zip_pos' = 0
    /\ pc' = "filter_loop"
    /\ ret' = ret

\* filter_inplace up to its loop: lines 355-356.
EnterFilterInplace(buffer) ==
    /\ previous_estimate' = initial_estimate
    /\ state_estimates' = buffer
    /\ zip_pos' = 0
    /\ IF Len(buffer) >= Len(observations)
       THEN pc' = "filter_loop" /\ ret' = ret
       ELSE /\ pc' = "done"
            /\ ret' = Panic("assertion failed: state_estimates.len() >= observations.len()")

\* A caller calls filter_inplace with a buffer of its own.
CallFilterInplace ==
    /\ pc = "idle"
    /\ call' = "filter_inplace"
    /\ \E capacity \in 0..(Len(observations) + MaxSpare) :
          EnterFilterInplace(Strict([k \in 1..capacity |-> stale(state_dim, k)]))
    /\ UNCHANGED <<model_vars, covariance_update_method, smooth_locals>>

\* A caller calls filter: lines 377-382.
CallFilter ==
    /\ pc = "idle"
    /\ call' = "filter"
    /\ EnterFilterInplace(Strict([k \in 1..Len(observations) |-> empty(state_dim)]))
    /\ UNCHANGED <<model_vars, covariance_update_method, smooth_locals>>

\* A caller calls smooth, which starts with filter: line 406.
CallSmooth ==
    /\ pc = "idle"
    /\ call' = "smooth"
    /\ EnterFilterInplace(Strict([k \in 1..Len(observations) |-> empty(state_dim)]))
    /\ UNCHANGED <<model_vars, covariance_update_method, smooth_locals>>

\* smooth_from_filtered up to its loop: lines 420-425.
EnterSmoothFromFiltered(filtered) ==
    \E reversed \in {reverse(filtered)} :
        /\ forward_results' = reversed
        /\ IF Len(reversed) = 0
           THEN /\ ret' = Panic("index out of bounds: the len is 0 but the index is 0")
                /\ pc' = "done"
                /\ UNCHANGED <<smoothed_backwards, smooth_future>>
           ELSE /\ smooth_future' = reversed[1]
                /\ smoothed_backwards' = <<reversed[1]>>
                /\ pc' = "smooth_loop"
                /\ ret' = ret

\* A loop turn that steps from the initial estimate every time instead of
\* from the previous estimate.
FilterIterFromInitial ==
    /\ pc = "filter_loop"
    /\ zip_pos < Len(observations)
    /\ zip_pos < Len(state_estimates)
    /\ \E this_estimate \in {step(Self, initial_estimate, observations[zip_pos + 1],
                                   debug_assertions)} :
          IF this_estimate.tag = "Ok"
          THEN /\ state_estimates' =
                      [state_estimates EXCEPT ![zip_pos + 1] = this_estimate.val]
               /\ previous_estimate' = this_estimate.val
               /\ zip_pos' = zip_pos + 1
               /\ UNCHANGED <<pc, ret>>
          ELSE /\ ret' = this_estimate
               /\ pc' = "done"
               /\ UNCHANGED filter_locals
    /\ UNCHANGED <<model_vars, covariance_update_method, call, smooth_locals>>

\* A loop turn that leaves a failing step out and goes on with the next
\* observation.
FilterIterSkippingFailures ==
    /\ pc = "filter_loop"
    /\ zip_pos < Len(observations)
    /\ zip_pos < Len(state_estimates)
    /\ \E this_estimate \in {step(Self, previous_estimate, observations[zip_pos + 1],
                                   debug_assertions)} :
          IF this_estimate.tag = "Ok"
          THEN /\ state_estimates' =
                      [state_estimates EXCEPT ![zip_pos + 1] = this_estimate.val]
               /\ previous_estimate' = this_estimate.val
          ELSE UNCHANGED <<state_estimates, previous_estimate>>
    /\ zip_pos' = zip_pos + 1
    /\ UNCHANGED <<model_vars, covariance_update_method, call, smooth_locals, pc, ret>>

\* A loop turn that writes its estimate into the slot after its own too.
FilterIterWritingAhead ==
    /\ pc = "filter_loop"
    /\ zip_pos < Len(observations)
    /\ zip_pos < Len(state_estimates)
    /\ \E this_estimate \in {step(Self, previous_estimate, observations[zip_pos + 1],
                                   debug_assertions)} :
          IF this_estimate.tag = "Ok"
          THEN /\ state_estimates' =
                      Strict([i \in 1..Len(state_estimates) |->
                                 IF i \in {zip_pos + 1, zip_pos + 2}
                                 THEN this_estimate.val ELSE state_estimates[i]])
               /\ previous_estimate' = this_estimate.val
               /\ zip_pos' = zip_pos + 1
               /\ UNCHANGED <<pc, ret>>
          ELSE /\ ret' = this_estimate
               /\ pc' = "done"
               /\ UNCHANGED filter_locals
    /\ UNCHANGED <<model_vars, covariance_update_method, call, smooth_locals>>

\* One turn of the loop of filter_inplace: lines 358-364.
FilterIter ==
    /\ pc = "filter_loop"
    /\ zip_pos < Len(observations)
    /\ zip_pos < Len(state_estimates)
    /\ \E this_estimate \in {step(Self, previous_estimate, observations[zip_pos + 1],
                                   debug_assertions)} :
          IF this_estimate.tag = "Ok"
          THEN /\ state_estimates' =
                      [state_estimates EXCEPT ![zip_pos + 1] = this_estimate.val]
               /\ previous_estimate' = this_estimate.val
               /\ zip_pos' = zip_pos + 1
               /\ UNCHANGED <<pc, ret>>
          ELSE /\ ret' = this_estimate
               /\ pc' = "done"
               /\ UNCHANGED filter_locals
    /\ UNCHANGED <<model_vars, covariance_update_method, call, smooth_locals>>

\* The loop of filter_inplace is over: line 365, then line 383 in filter
\* and line 407 in smooth.
FilterReturn ==
    /\ pc = "filter_loop"
    /\ ~(zip_pos < Len(observations) /\ zip_pos < Len(state_estimates))
    /\ IF call = "smooth"
       THEN EnterSmoothFromFiltered(state_estimates)
       ELSE /\ ret' = IF call = "filter" THEN Ok(state_estimates) ELSE Ok(<< >>)
            /\ pc' = "done"
            /\ UNCHANGED smooth_locals
    /\ UNCHANGED <<model_vars, covariance_update_method, call, filter_locals>>

\* A caller passes the beliefs filter returned to smooth_from_filtered.
CallSmoothFromFiltered ==
    /\ pc = "done"
    /\ call = "filter"
    /\ ret.tag = "Ok"
    /\ call' = "smooth_from_filtered"
    /\ EnterSmoothFromFiltered(ret.val)
    /\ UNCHANGED <<model_vars, covariance_update_method, filter_locals>>

\* A loop turn that smooths against the filtered belief of the next time
\* step instead of the smoothed one.
SmoothIterFromFiltered ==
    /\ pc = "smooth_loop"
    /\ Len(smoothed_backwards) < Len(forward_results)
    /\ \E smoothed \in {smooth_step(Self, forward_results[Len(smoothed_backwards)],
                                     forward_results[Len(smoothed_backwards) + 1])} :
          IF smoothed.tag = "Ok"
          THEN /\ smooth_future' = smoothed.val
               /\ smoothed_backwards' = Append(smoothed_backwards, smoothed.val)
               /\ UNCHANGED <<pc, ret>>
          ELSE /\ ret' = smoothed
               /\ pc' = "done"
               /\ UNCHANGED <<smoothed_backwards, smooth_future>>
    /\ UNCHANGED <<model_vars, covariance_update_method, call, filter_locals,
                   forward_results>>

\* One turn of the loop of smooth_from_filtered: lines 426-429.
SmoothIter ==
    /\ pc = "smooth_loop"
    /\ Len(smoothed_backwards) < Len(forward_results)
    /\ \E smoothed \in {smooth_step(Self, smooth_future,
                                     forward_results[Len(smoothed_backwards) + 1])} :
          IF smoothed.tag = "Ok"
          THEN /\ smooth_future' = smoothed.val
               /\ smoothed_backwards' = Append(smoothed_backwards, smoothed.val)
               /\ UNCHANGED <<pc, ret>>
          ELSE /\ ret' = smoothed
               /\ pc' = "done"
               /\ UNCHANGED <<smoothed_backwards, smooth_future>>
    /\ UNCHANGED <<model_vars, covariance_update_method, call, filter_locals,
                   forward_results>>

\* The loop of smooth_from_filtered is over: lines 431-432.
SmoothReturn ==
    /\ pc = "smooth_loop"
    /\ Len(smoothed_backwards) = Len(forward_results)
    /\ smoothed_backwards' = reverse(smoothed_backwards)
    /\ ret' = Ok(reverse(smoothed_backwards))
    /\ pc' = "done"
    /\ UNCHANGED <<model_vars, covariance_update_method, call, filter_locals,
                   forward_results, smooth_future>>

Next ==
    \/ CallUpdate
    \/ CallStepWithOptions
    \/ CallStep
    \/ CallFilterInplace
    \/ CallFilter
    \/ CallSmooth
    \/ FilterIter
    \/ FilterReturn
    \/ CallSmoothFromFiltered
    \/ SmoothIter
    \/ SmoothReturn

Spec == Init /\ [][Next]_vars

----------------------------------------------------------------------------
(* What the checked properties speak of.                                   *)

Finished(names) == pc = "done" /\ call \in names

is_nan_value(x) == x.k = "nan"

\* m without row i and column j.
Minor(m, i, j) ==
    Strict([r \in 1..(nrows(m) - 1) |->
        Strict([c \in 1..(ncols(m) - 1) |->
            m[IF r < i THEN r ELSE r + 1][IF c < j THEN c ELSE c + 1]])])

\* The determinant, expanded along the first row.
RECURSIVE Det(_)
Det(m) ==
    IF nrows(m) = 0 THEN One
    ELSE IF nrows(m) = 1 THEN m[1][1]
    ELSE SumSeq(Strict([j \in 1..ncols(m) |->
             Mul(IF j % 2 = 1 THEN m[1][j] ELSE Neg(m[1][j]), Det(Minor(m, 1, j)))]))

LeadingBlock(m, k) == Strict([i \in 1..k |-> Strict([j \in 1..k |-> m[i][j]])])

\* Sylvester's criterion: a symmetric matrix is positive-definite exactly
\* when all its leading principal minors are positive.
PositiveDefinite(m) ==
    \A k \in 1..nrows(m) : partial_cmp(Det(LeadingBlock(m, k)), Zero) = "Greater"

\* H * P * HT + R for the prior the caller passed to update.
InnovationCovarianceOfCall ==
    MatAdd(MatMul(MatMul(observation_matrix.H, initial_estimate.covariance),
                  observation_matrix.HT),
           observation_matrix.R)

\* The step result a slot of the filter output was computed from.
Threaded(beliefs, i) ==
    step(Self, IF i = 1 THEN initial_estimate ELSE beliefs[i - 1], observations[i],
         debug_assertions)

----------------------------------------------------------------------------
(* The checked properties.                                                 *)

\* C1: step and step_with_options run predict on the prior; when some
\* component of the observation is NaN they return exactly the predicted
\* belief, and otherwise (infinite components included) they return what
\* update returns on the predicted belief, for every covariance update method.
C1_StepPredictsThenUpdatesUnlessNaN ==
    Finished({"step", "step_with_options"}) =>
        \A prior \in {predict(transition_model, initial_estimate)} :
            IF \E i \in 1..Len(observations[1]) : is_nan_value(observations[1][i])
            THEN ret = Ok(prior)
            ELSE ret = update(observation_matrix, prior, observations[1],
                              covariance_update_method, debug_assertions)

\* A step on an observation with one NaN and one valid component returned
\* the predicted belief.
C1_Witness ==
    /\ Finished({"step_with_options"})
    /\ \E i, j \in 1..Len(observations[1]) :
          is_nan_value(observations[1][i]) /\ observations[1][j].k = "num"
    /\ ret = Ok(predict(transition_model, initial_estimate))
    /\ ret.val # initial_estimate

\* C2: filter returns one belief per observation, in time order, each the
\* step from the belief before it (the initial belief for the first) on its
\* observation, and filter_inplace leaves the same beliefs in the first
\* slots of its buffer; the pass succeeds exactly when every step did.
C2_FilterThreadsStep ==
    (Finished({"filter", "filter_inplace"}) /\ ret.tag # "Panic") =>
        /\ \A i \in 1..zip_pos : Threaded(state_estimates, i) = Ok(state_estimates[i])
        /\ ret.tag = "Ok" <=> zip_pos = Len(observations)
        /\ ret.tag = "Ok" =>
              ret.val = IF call = "filter" THEN state_estimates ELSE << >>
        /\ ret.tag = "Ok" /\ call = "filter" => Len(ret.val) = Len(observations)
        /\ ret.tag # "Ok" => Threaded(state_estimates, zip_pos + 1) = ret

\* filter returned the longest series of beliefs, every one different from
\* the one before it.
C2_Witness ==
    /\ Finished({"filter"})
    /\ ret.tag = "Ok"
    /\ Len(ret.val) = MaxObs
    /\ \A i \in 2..Len(ret.val) : ret.val[i] # ret.val[i - 1]
    /\ ret.val[1] # initial_estimate

\* C3: update returns the error CovarianceNotPositiveSemiDefinite exactly
\* when the innovation covariance H * P * HT + R is not positive-definite,
\* and a posterior belief in every other case, whatever the covariance
\* update method.
C3_UpdateFailsExactlyWhenSNotPositiveDefinite ==
    Finished({"update"}) =>
        IF PositiveDefinite(InnovationCovarianceOfCall)
        THEN /\ ret.tag = "Ok"
             /\ Len(ret.val.state) = state_dim
             /\ nrows(ret.val.covariance) = state_dim
        ELSE ret = Err(CovarianceNotPositiveSemiDefinite)

\* update failed on a two-sensor innovation covariance whose diagonal is
\* positive but whose determinant is not.
C3_Witness ==
    /\ Finished({"update"})
    /\ ret = Err(CovarianceNotPositiveSemiDefinite)
    /\ nrows(observation_matrix.R) = 2
    /\ \A i \in 1..2 : partial_cmp(InnovationCovarianceOfCall[i][i], Zero) = "Greater"

\* C4 as the specification states it: an update with an observation noise R
\* that is not positive-definite always yields the error.
C4_NoiseNotPositiveDefiniteAlwaysFails ==
    (Finished({"update"}) /\ ~PositiveDefinite(observation_matrix.R)) =>
        ret = Err(CovarianceNotPositiveSemiDefinite)

\* C4: an update with an observation noise R that is not positive-definite
\* never panics; it yields the error exactly when H * P * HT + R is not
\* positive-definite either, and a posterior belief when the prior
\* covariance makes that sum positive-definite.
C4_NoiseNotPositiveDefiniteFailsWhenSumIsNot ==
    (Finished({"update"}) /\ ~PositiveDefinite(observation_matrix.R)) =>
        /\ ret.tag # "Panic"
        /\ ret = Err(CovarianceNotPositiveSemiDefinite)
              <=> ~PositiveDefinite(InnovationCovarianceOfCall)
        /\ ret.tag = "Ok" <=> PositiveDefinite(InnovationCovarianceOfCall)

\* update returned a posterior belief although R has a negative diagonal.
C4_Witness ==
    /\ Finished({"update"})
    /\ partial_cmp(observation_matrix.R[1][1], Zero) = "Less"
    /\ ret.tag = "Ok"

\* C5: a step that fails in the loop of filter_inplace ends the call there
\* with the error and nothing else changed: no slot is written, no later
\* observation is processed and, under smooth, the backward pass is not
\* run; a smoother step that fails ends smooth_from_filtered with the error
\* and not with the beliefs smoothed so far; after the error is returned
\* nothing more happens.
C5_FailureAbortsTheWholeSeries ==
    [][/\ (/\ pc = "filter_loop"
           /\ zip_pos < Len(observations)
           /\ zip_pos < Len(state_estimates)
           /\ step(Self, previous_estimate, observations[zip_pos + 1],
                   debug_assertions).tag = "Err")
          => /\ pc' = "done"
             /\ ret' = Err(CovarianceNotPositiveSemiDefinite)
             /\ UNCHANGED <<filter_locals, smooth_locals>>
             /\ call = "smooth" => smoothed_backwards' = << >>
       /\ (/\ pc = "smooth_loop"
           /\ Len(smoothed_backwards) < Len(forward_results)
           /\ smooth_step(Self, smooth_future,
                          forward_results[Len(smoothed_backwards) + 1]).tag = "Err")
          => /\ pc' = "done"
             /\ ret' = Err(CovarianceNotPositiveSemiDefinite)
             /\ UNCHANGED <<filter_locals, smooth_locals>>
       /\ (pc = "done" /\ ret.tag = "Err") => UNCHANGED vars
      ]_vars

\* smooth returned the error of a step after the first, with beliefs
\* already filtered and the backward pass not started.
C5_Witness ==
    /\ Finished({"smooth"})
    /\ ret = Err(CovarianceNotPositiveSemiDefinite)
    /\ zip_pos >= 1
    /\ zip_pos < Len(observations)
    /\ smoothed_backwards = << >>
    /\ forward_results = << >>

\* C6: when smoothing succeeds on L >= 1 filtered beliefs, the last
\* smoothed belief is the last filtered belief; for L = 1 smoothing cannot
\* fail and returns the one filtered belief unchanged.
C6_LastSmoothedIsLastFiltered ==
    Finished({"smooth", "smooth_from_filtered"}) =>
        /\ ret.tag = "Ok" =>
              /\ Len(ret.val) >= 1
              /\ ret.val[Len(ret.val)] = state_estimates[Len(state_estimates)]
        /\ Len(forward_results) = 1 => ret = Ok(<<state_estimates[1]>>)

\* smooth_from_filtered changed the first belief of a longer series and
\* left the last one as filtered.
C6_Witness ==
    /\ Finished({"smooth_from_filtered"})
    /\ ret.tag = "Ok"
    /\ Len(ret.val) >= 2
    /\ ret.val[Len(ret.val)] = state_estimates[Len(state_estimates)]
    /\ ret.val[1] # state_estimates[1]

\* C7: smooth_from_filtered takes the last filtered belief first and then
\* the indices before it from the last but one down to the first, each
\* smoothed by smooth_step against the belief it smoothed just before (the
\* already-smoothed belief of the next time step); it returns one belief
\* per filtered belief, in forward time order.
C7_SmoothsBackwardsAgainstSmoothedFuture ==
    /\ pc = "smooth_loop" =>
          \A k \in 1..Len(smoothed_backwards) :
              IF k = 1
              THEN smoothed_backwards[1] = state_estimates[Len(state_estimates)]
              ELSE smooth_step(Self, smoothed_backwards[k - 1],
                               state_estimates[Len(state_estimates) - k + 1])
                       = Ok(smoothed_backwards[k])
    /\ (Finished({"smooth", "smooth_from_filtered"}) /\ ret.tag = "Ok") =>
          /\ Len(ret.val) = Len(state_estimates)
          /\ \A i \in 1..(Len(ret.val) - 1) :
                smooth_step(Self, ret.val[i + 1], state_estimates[i]) = Ok(ret.val[i])

\* smooth returned three beliefs of which the middle one, the future of the
\* first, is not the filtered one.
C7_Witness ==
    /\ Finished({"smooth"})
    /\ ret.tag = "Ok"
    /\ Len(ret.val) = 3
    /\ ret.val[2] # state_estimates[2]
    /\ ret.val[1] # state_estimates[1]

\* C8 as the specification states it: smooth ends, for an observation
\* series of any length L >= 0, with L smoothed beliefs or with the error
\* CovarianceNotPositiveSemiDefinite, never in another way.
C8_SmoothReturnsBeliefsOrTheError ==
    Finished({"smooth"}) =>
        \/ ret.tag = "Ok" /\ Len(ret.val) = Len(observations)
        \/ ret = Err(CovarianceNotPositiveSemiDefinite)

\* C9: whether update succeeds does not depend on the covariance update
\* method, and when it succeeds the posterior mean is the same for all
\* three methods.
C9_MeanAndOutcomeIndependentOfMethod ==
    Finished({"update"}) =>
        \A m \in CovarianceUpdateMethod :
            \A other \in {update(observation_matrix, initial_estimate, observations[1],
                                 m, debug_assertions)} :
                /\ other.tag = ret.tag
                /\ ret.tag = "Ok" => other.val.state = ret.val.state

\* An OptimalKalman update of a two-dimensional prior moved the mean, to
\* where the Joseph form moves it.
C9_Witness ==
    /\ Finished({"update"})
    /\ covariance_update_method = "OptimalKalman"
    /\ state_dim = 2
    /\ ret.tag = "Ok"
    /\ ret.val.state # initial_estimate.state
    /\ ret.val.state = update(observation_matrix, initial_estimate, observations[1],
                              "JosephForm", debug_assertions).val.state

Less(x, y) == partial_cmp(x, y) = "Less"

Mean(belief) == belief.state[1]

Variance(belief) == belief.covariance[1][1]

\* The scenario of the 1-D constant position model: F = 1, Q = 0.01, H = 1,
\* R = 0.1, initial belief x = 0, P = 1, observations 1, 1, 1.
ConstantPositionScenario ==
    /\ transition_model = ConstantPosition.transition_model
    /\ observation_matrix = ConstantPosition.observation_matrix
    /\ initial_estimate = Belief1(Zero, One)
    /\ observations = <<(<<One>>), (<<One>>), (<<One>>)>>

\* The belief before the filtered belief i.
Before(i) == IF i = 1 THEN initial_estimate ELSE state_estimates[i - 1]

\* C10: in the constant position scenario the filtered means increase
\* strictly at each step and stay below 1, the filtered covariances
\* decrease strictly at each step, the last smoothed belief is the last
\* filtered belief, and every earlier smoothed mean is strictly closer to 1
\* than the filtered mean at its index.
C10_ConstantPositionScenario ==
    (ConstantPositionScenario /\ Finished({"smooth"})) =>
        /\ ret.tag = "Ok"
        /\ Len(state_estimates) = 3
        /\ Len(ret.val) = 3
        /\ \A i \in 1..3 :
              /\ Less(Mean(Before(i)), Mean(state_estimates[i]))
              /\ Less(Mean(state_estimates[i]), One)
              /\ Less(Variance(state_estimates[i]), Variance(Before(i)))
        /\ ret.val[3] = state_estimates[3]
        /\ \A i \in 1..2 :
              Less(Abs(Sub(One, Mean(ret.val[i]))),
                   Abs(Sub(One, Mean(state_estimates[i]))))

\* The scenario was smoothed; its first filtered belief has mean 101/111
\* and covariance 101/1110.
C10_Witness ==
    /\ ConstantPositionScenario
    /\ Finished({"smooth"})
    /\ ret.tag = "Ok"
    /\ state_estimates[1] = Belief1(Frac(101, 111), Frac(101, 1110))
    /\ Less(Mean(state_estimates[1]), Mean(ret.val[1]))

\* The value slot i of the buffer had when filter_inplace was entered: the
\* caller's own, or the placeholder filter fills its buffer with.
SlotBefore(i) == IF call = "filter_inplace" THEN stale(state_dim, i) ELSE empty(state_dim)

\* C11: filter_inplace writes only the slots of the steps that succeeded:
\* the slots before the position it reached hold the posteriors of their
\* steps, in order, and every slot from that position on, the slots beyond
\* the observations included, keeps the value it had before the call,
\* whether the call succeeds or fails at a step; the initial estimate and
\* the observations are never modified.
C11_FilterInplaceWritesOnlyStepSlots ==
    /\ [](call \in {"filter_inplace", "filter", "smooth"} =>
            /\ zip_pos <= Len(observations)
            /\ zip_pos <= Len(state_estimates)
            /\ \A i \in (zip_pos + 1)..Len(state_estimates) :
                  state_estimates[i] = SlotBefore(i)
            /\ pc = "done" =>
                  \A i \in 1..zip_pos :
                      Threaded(state_estimates, i) = Ok(state_estimates[i])
            /\ (pc = "done" /\ ret.tag = "Ok") => zip_pos = Len(observations))
    /\ [][initial_estimate' = initial_estimate /\ observations' = observations]_vars

\* filter_inplace failed at a step after the first with a buffer larger than
\* the series: the slot of the failing step and the spare slot are the
\* caller's, the slot before holds a posterior.
C11_Witness ==
    /\ Finished({"filter_inplace"})
    /\ ret = Err(CovarianceNotPositiveSemiDefinite)
    /\ zip_pos >= 1
    /\ Len(state_estimates) > Len(observations)
    /\ state_estimates[zip_pos] # SlotBefore(zip_pos)
    /\ state_estimates[zip_pos + 1] = SlotBefore(zip_pos + 1)
    /\ state_estimates[Len(state_estimates)] = SlotBefore(Len(state_estimates))

CapacityAssertionFailed ==
    ret = Panic("assertion failed: state_estimates.len() >= observations.len()")

\* C12: a call of filter_inplace with fewer slots than observations fails
\* the capacity assertion before any step is taken or any slot written, and
\* the assertion fails in no other case; filter, and smooth through it,
\* pass exactly one slot per observation, so the assertion holds there.
C12_CapacityAssertedBeforeAnyStep ==
    /\ (call = "filter_inplace" /\ Len(state_estimates) < Len(observations)) =>
          /\ pc = "done"
          /\ CapacityAssertionFailed
          /\ zip_pos = 0
          /\ previous_estimate = initial_estimate
          /\ \A i \in 1..Len(state_estimates) : state_estimates[i] = SlotBefore(i)
    /\ CapacityAssertionFailed =>
          call = "filter_inplace" /\ Len(state_estimates) < Len(observations)
    /\ call \in {"filter", "smooth", "smooth_from_filtered"} =>
          Len(state_estimates) = Len(observations)

\* filter_inplace failed the assertion on a buffer that has slots, but
\* fewer than there are observations.
C12_Witness ==
    /\ Finished({"filter_inplace"})
    /\ CapacityAssertionFailed
    /\ Len(state_estimates) >= 1
    /\ Len(state_estimates) < Len(observations)

====
